---- MODULE Spec2Model ----
(***************************************************************************)
(* The SMTP submission client of src/lib/smtp_mailer.php: the reply        *)
(* reader, the protocol driver leenelite_send_smtp and the message         *)
(* composer (header block, line-ending normalisation, dot-stuffing).       *)
(*                                                                         *)
(* Strings of the program are sequences of bytes.  A byte is written as    *)
(* the one-character string of its ASCII character; CR, LF, TAB and the    *)
(* bytes above 0x7E have names (CR, LF, TAB, "xD9", ...).                  *)
(***************************************************************************)
EXTENDS Integers, Sequences, FiniteSets, TLC

CR == "\r"
LF == "\n"
TAB == "\t"
CRLF == <<CR, LF>>

(* The printable ASCII bytes 0x20..0x7E, in order of their byte value (the *)
(* backtick 0x60 is written "x60"). *)
PrintableAscii ==
  <<" ","!","\"","#","$","%","&","'","(",")","*","+",",","-",".","/",
    "0","1","2","3","4","5","6","7","8","9",":",";","<","=",">","?",
    "@","A","B","C","D","E","F","G","H","I","J","K","L","M","N","O",
    "P","Q","R","S","T","U","V","W","X","Y","Z","[","\\","]","^","_",
    "x60","a","b","c","d","e","f","g","h","i","j","k","l","m","n","o",
    "p","q","r","s","t","u","v","w","x","y","z","{","|","}","~">>

(* Bytes outside 0x20..0x7E that the model's inputs use, with their value. *)
OtherBytes == {<<CR, 13>>, <<LF, 10>>, <<TAB, 9>>,
               <<"xD9", 217>>, <<"x85", 133>>, <<"xC3", 195>>, <<"xA9", 169>>}

(* The value 0..255 of a byte. *)
OrdTable ==
  [c \in {PrintableAscii[i] : i \in 1..Len(PrintableAscii)} \cup {p[1] : p \in OtherBytes} |->
     IF \E i \in 1..Len(PrintableAscii) : PrintableAscii[i] = c
       THEN 31 + (CHOOSE i \in 1..Len(PrintableAscii) : PrintableAscii[i] = c)
       ELSE (CHOOSE p \in OtherBytes : p[1] = c)[2]]

Ord(c) == OrdTable[c]

(* implode($glue, $pieces) *)
RECURSIVE implode(_, _)
implode(glue, pieces) ==
  IF pieces = <<>> THEN <<>>
  ELSE IF Len(pieces) = 1 THEN pieces[1]
  ELSE pieces[1] \o glue \o implode(glue, Tail(pieces))

(* Does pat occur in s at position i? *)
MatchAt(s, i, pat) ==
  /\ i + Len(pat) - 1 <= Len(s)
  /\ \A k \in 1..Len(pat) : s[i + k - 1] = pat[k]

(* str_replace($pat, $rep, $s) for a non-empty $pat: every occurrence, found *)
(* left to right without overlap, is replaced; replaced text is not rescanned. *)
RECURSIVE ReplaceFrom(_, _, _, _)
ReplaceFrom(s, i, pat, rep) ==
  IF i > Len(s) THEN <<>>
  ELSE IF MatchAt(s, i, pat) THEN rep \o ReplaceFrom(s, i + Len(pat), pat, rep)
  ELSE <<s[i]>> \o ReplaceFrom(s, i + 1, pat, rep)

str_replace(pat, rep, s) == ReplaceFrom(s, 1, pat, rep)

(* trim(): strips " \t\n\r\0\x0B" from both ends. *)
TrimBytes == {" ", TAB, LF, CR}

trim(s) ==
  LET keep == {i \in 1..Len(s) : s[i] \notin TrimBytes}
  IN  IF keep = {} THEN <<>>
      ELSE LET lo == CHOOSE i \in keep : \A j \in keep : i <= j
               hi == CHOOSE i \in keep : \A j \in keep : j <= i
           IN  SubSeq(s, lo, hi)

(***************************************************************************)
(* base64_encode                                                           *)
(***************************************************************************)
Base64Alphabet ==
  <<"A","B","C","D","E","F","G","H","I","J","K","L","M","N","O","P",
    "Q","R","S","T","U","V","W","X","Y","Z","a","b","c","d","e","f",
    "g","h","i","j","k","l","m","n","o","p","q","r","s","t","u","v",
    "w","x","y","z","0","1","2","3","4","5","6","7","8","9","+","/">>

B64Char(n) == Base64Alphabet[n + 1]

(* The 4 output characters of one group of 1, 2 or 3 input bytes. *)
B64Group(g) ==
  LET b1 == Ord(g[1])
      b2 == IF Len(g) >= 2 THEN Ord(g[2]) ELSE 0
      b3 == IF Len(g) >= 3 THEN Ord(g[3]) ELSE 0
      n  == b1 * 65536 + b2 * 256 + b3
  IN  << B64Char(n \div 262144),
         B64Char((n \div 4096) % 64),
         IF Len(g) >= 2 THEN B64Char((n \div 64) % 64) ELSE "=",
         IF Len(g) >= 3 THEN B64Char(n % 64) ELSE "=" >>

RECURSIVE base64_encode(_)
base64_encode(s) ==
  IF s = <<>> THEN <<>>
  ELSE IF Len(s) <= 3 THEN B64Group(s)
  ELSE B64Group(SubSeq(s, 1, 3)) \o base64_encode(SubSeq(s, 4, Len(s)))

(***************************************************************************)
(* leenelite_encode_header_utf8                                            *)
(***************************************************************************)
EncodedWordPrefix == <<"=","?","U","T","F","-","8","?","B","?">>
EncodedWordSuffix == <<"?", "=">>

(* preg_match('/[^\x20-\x7E]/', $text) *)
HasNonPrintable(text) ==
  \E i \in 1..Len(text) : Ord(text[i]) < 32 \/ Ord(text[i]) > 126

(* Mutant: every subject is made an encoded word, printable or not. *)
leenelite_encode_header_utf8_Always(text) ==
  EncodedWordPrefix \o base64_encode(text) \o EncodedWordSuffix

leenelite_encode_header_utf8(text) ==
  IF HasNonPrintable(text)
    THEN EncodedWordPrefix \o base64_encode(text) \o EncodedWordSuffix
    ELSE text

(***************************************************************************)
(* PHP arrays as ordered maps: a sequence of [key, val] entries with       *)
(* distinct keys.  A key that is a canonical decimal number is an integer  *)
(* key (list-style entry).                                                 *)
(***************************************************************************)
Digits == {"0", "1", "2", "3", "4", "5", "6", "7", "8", "9"}

is_int(k) ==
  /\ k # <<>>
  /\ \A i \in 1..Len(k) : k[i] \in Digits
  /\ (Len(k) = 1 \/ k[1] # "0")

(* $arr[$k] = $v : an existing key keeps its position, a new key is appended. *)
ArraySet(arr, k, v) ==
  IF \E i \in 1..Len(arr) : arr[i].key = k
    THEN [i \in 1..Len(arr) |-> IF arr[i].key = k THEN [key |-> k, val |-> v] ELSE arr[i]]
    ELSE Append(arr, [key |-> k, val |-> v])

(* foreach ($extraHeaders as $k => $v) $headers[$k] = $v; *)
RECURSIVE MergeHeaders(_, _)
MergeHeaders(headers, extra) ==
  IF extra = <<>> THEN headers
  ELSE MergeHeaders(ArraySet(headers, extra[1].key, extra[1].val), Tail(extra))

(***************************************************************************)
(* leenelite_build_headers                                                 *)
(***************************************************************************)
HeaderLine(e) ==
  IF is_int(e.key)
    THEN LET line == trim(e.val) IN IF line # <<>> THEN <<line>> ELSE <<>>
    ELSE LET key == trim(e.key)
             val == trim(e.val)
         IN  IF key # <<>> /\ val # <<>> THEN <<key \o <<":", " ">> \o val>> ELSE <<>>

RECURSIVE HeaderLines(_)
HeaderLines(headers) ==
  IF headers = <<>> THEN <<>>
  ELSE HeaderLine(headers[1]) \o HeaderLines(Tail(headers))

leenelite_build_headers(headers) == implode(CRLF, HeaderLines(headers))

(***************************************************************************)
(* The message composer of leenelite_send_smtp                             *)
(***************************************************************************)
H_Date == <<"D","a","t","e">>
H_From == <<"F","r","o","m">>
H_To == <<"T","o">>
H_Subject == <<"S","u","b","j","e","c","t">>
H_MessageID == <<"M","e","s","s","a","g","e","-","I","D">>
H_MIMEVersion == <<"M","I","M","E","-","V","e","r","s","i","o","n">>
H_ContentType == <<"C","o","n","t","e","n","t","-","T","y","p","e">>
H_ContentTransferEncoding ==
  <<"C","o","n","t","e","n","t","-","T","r","a","n","s","f","e","r","-","E","n","c","o","d","i","n","g">>
V_MIMEVersion == <<"1",".","0">>
V_ContentType ==
  <<"t","e","x","t","/","p","l","a","i","n",";"," ","c","h","a","r","s","e","t","=","U","T","F","-","8">>
V_ContentTransferEncoding == <<"8","b","i","t">>

(* date('r') at send time: a value of the environment. *)
DateR ==
  <<"T","h","u",","," ","0","5"," ","N","o","v"," ","2","0","2","6"," ","2","3",":","1","1",":","0","0"," ","+","0","0","0","0">>

(* bin2hex(random_bytes(16)): 32 hexadecimal digits drawn by the environment. *)
RandomHex ==
  { <<"0","0","0","1","0","2","0","3","0","4","0","5","0","6","0","7","0","8","0","9","0","a","0","b","0","c","0","d","0","e","0","f">>,
    <<"f","0","e","1","d","2","c","3","b","4","a","5","9","6","8","7","7","8","6","9","5","a","4","b","3","c","2","d","1","e","0","f">> }

(* $fromName !== '' ? sprintf('%s <%s>', $fromName, $fromEmail) : $fromEmail *)
FromHeader(fromName, fromEmail) ==
  IF fromName # <<>> THEN fromName \o <<" ", "<">> \o fromEmail \o <<">">>
  ELSE fromEmail

FixedHeaders(m, helo, hex) ==
  << [key |-> H_Date, val |-> DateR],
     [key |-> H_From, val |-> FromHeader(m.fromName, m.fromEmail)],
     [key |-> H_To, val |-> m.toEmail],
     [key |-> H_Subject, val |-> leenelite_encode_header_utf8(m.subject)],
     [key |-> H_MessageID, val |-> <<"<">> \o hex \o <<"@">> \o helo \o <<">">>],
     [key |-> H_MIMEVersion, val |-> V_MIMEVersion],
     [key |-> H_ContentType, val |-> V_ContentType],
     [key |-> H_ContentTransferEncoding, val |-> V_ContentTransferEncoding] >>

HeaderStr(m, helo, hex) ==
  leenelite_build_headers(MergeHeaders(FixedHeaders(m, helo, hex), m.extraHeaders))

(* Mutant: a bare CR is not taken as a line ending. *)
NormalizeBody_KeepsBareCR(body) ==
  str_replace(<<LF>>, CRLF, str_replace(CRLF, <<LF>>, body))

(* $body = str_replace(["\r\n", "\r"], "\n", $body);  *)
(* $body = str_replace("\n", "\r\n", $body);          *)
NormalizeBody(body) ==
  str_replace(<<LF>>, CRLF, str_replace(<<CR>>, <<LF>>, str_replace(CRLF, <<LF>>, body)))

(* $body = preg_replace('/\r\n\./', "\r\n..", $body); *)
DotStuff(body) == str_replace(<<CR, LF, ".">>, <<CR, LF, ".", ".">>, body)

TransformBody(body) == DotStuff(NormalizeBody(body))

(* $dataMsg = $headerStr . "\r\n\r\n" . $body . "\r\n."; *)
DataMsg(headerStr, body) ==
  headerStr \o CRLF \o CRLF \o TransformBody(body) \o CRLF \o <<".">>

(***************************************************************************)
(* Bounds and input sets                                                   *)
(***************************************************************************)
(* Longest body of the composer specification, in bytes. *)
MaxBodyLen == 3
(* Most lines one reply is given before the read ends. *)
MaxReplyLines == 2

BodyBytes == {".", "a", CR, LF}

RECURSIVE StringsUpTo(_, _)
StringsUpTo(alphabet, n) ==
  IF n = 0 THEN {<<>>}
  ELSE LET shorter == StringsUpTo(alphabet, n - 1)
       IN  shorter \cup {Append(s, c) : s \in {t \in shorter : Len(t) = n - 1}, c \in alphabet}

Bodies == StringsUpTo(BodyBytes, MaxBodyLen)

(* An array entry that may be missing: $a['k'] ?? $default *)
Absent == [isset |-> FALSE, val |-> <<>>]
Given(s) == [isset |-> TRUE, val |-> s]
Coalesce(f, default) == IF f.isset THEN f.val ELSE default

Hosts == {Absent, Given(<<>>), Given(<<"r", "e", "l", "a", "y">>)}
Encryptions == {Absent, Given(<<"t", "l", "s">>), Given(<<"T", "L", "S">>),
                Given(<<"n", "o", "n", "e">>), Given(<<>>)}
Helos == {Given(<<"m", "x">>)}

Configs == [host : Hosts, helo : Helos, encryption : Encryptions]

FromEmail == <<"f", "@", "x">>
ToEmail == <<"t", "@", "y">>
H_ReplyTo == <<"R", "e", "p", "l", "y", "-", "T", "o">>

(* The messages of the protocol specification. *)
Messages ==
  [fromEmail : {FromEmail}, fromName : {<<"N">>}, toEmail : {ToEmail},
   subject : {<<"H", "i">>},
   body : {<<"a">>, <<".">>},
   extraHeaders : {<<[key |-> H_ReplyTo, val |-> <<"v", "@", "z">>]>>}]

(* The messages of the composer specification: every body up to MaxBodyLen. *)
ComposerMessages ==
  [fromEmail : {FromEmail}, fromName : {<<>>, <<"N">>}, toEmail : {ToEmail},
   subject : {<<"H", "i">>},
   body : Bodies,
   extraHeaders : {<<>>}]

(* Longest subject of the header specification, in bytes. *)
MaxSubjectLen == 3

(* A letter, the space that trim() removes, and the two bytes of the       *)
(* Arabic letter meem in UTF-8.                                            *)
SubjectBytes == {"H", " ", "xD9", "x85"}

Subjects == StringsUpTo(SubjectBytes, MaxSubjectLen)

H_XTag == <<"X", "-", "T", "a", "g">>
ReplyToEntry == [key |-> H_ReplyTo, val |-> <<"v", "@", "z">>]
XTagEntry == [key |-> H_XTag, val |-> <<"1">>]
SubjectEntry == [key |-> H_Subject, val |-> <<"X">>]

(* The $extraHeaders arrays of the header specification: none, the         *)
(* Reply-To of the form handlers, two entries in either order, and an      *)
(* entry keyed like a fixed header.                                        *)
ExtraHeaderSets ==
  { <<>>, <<ReplyToEntry>>, <<ReplyToEntry, XTagEntry>>, <<XTagEntry, ReplyToEntry>>,
    <<SubjectEntry>>, <<ReplyToEntry, SubjectEntry>> }

(* The messages of the header specification: every subject up to           *)
(* MaxSubjectLen with every $extraHeaders array.                           *)
HeaderMessages ==
  [fromEmail : {FromEmail}, fromName : {<<"N">>}, toEmail : {ToEmail},
   subject : Subjects,
   body : {<<"a">>},
   extraHeaders : ExtraHeaderSets]

(* Caller entries that leenelite_build_headers has to leave out: a value   *)
(* that is empty, a value of spaces, a name that is empty, and a list       *)
(* entry (integer key) that is empty once trimmed; and a list entry that    *)
(* holds a whole line.                                                      *)
EmptyValueEntry == [key |-> H_XTag, val |-> <<>>]
BlankValueEntry == [key |-> H_XTag, val |-> <<" ", " ">>]
EmptyNameEntry == [key |-> <<" ">>, val |-> <<"1">>]
EmptyListEntry == [key |-> <<"0">>, val |-> <<" ">>]
ListEntry == [key |-> <<"0">>, val |-> H_XTag \o <<":", " ", "1">>]

BuildExtraHeaderSets ==
  { <<>>, <<ReplyToEntry>>, <<EmptyValueEntry>>, <<ReplyToEntry, BlankValueEntry>>,
    <<EmptyNameEntry, ReplyToEntry>>, <<EmptyListEntry>>, <<ListEntry>> }

(* A display name (from_name of the configuration) that holds an empty     *)
(* line of its own.                                                        *)
NameWithBlankLine == <<"N", CR, LF, CR, LF, "X">>

(* The messages of the header-building specification: a recipient and a    *)
(* subject that may be empty or all spaces, with every array above.        *)
BuildMessages ==
  [fromEmail : {FromEmail}, fromName : {<<>>, <<"N">>, NameWithBlankLine},
   toEmail : {ToEmail, <<>>, <<" ">>},
   subject : {<<>>, <<" ">>, <<"H">>, <<"xD9", "x85">>},
   body : {<<"a">>},
   extraHeaders : BuildExtraHeaderSets]

(***************************************************************************)
(* Reply lines.  A line is the status code it starts with (NoCode when it  *)
(* does not start with three digits) and the byte that follows the code.   *)
(***************************************************************************)
NoCode == 0
Codes == {220, 221, 250, 251, 354, 550}

(* The codes the continuation lines of the model carry. *)
ContinuationCodes == {250, 550}

(* The bytes PCRE's \s matches: space, tab, LF, vertical tab, form feed, CR. *)
PcreWhitespace == {" ", TAB, LF, "x0B", "x0C", CR}

(* The lines a server sends: a code and a space, a code and a hyphen, a    *)
(* code alone (its CR follows the code), a line without a code.            *)
Lines ==
  [code : Codes, sep : {" "}] \cup [code : ContinuationCodes, sep : {"-", CR}]
    \cup {[code |-> NoCode, sep |-> " "]}

(* Mutant: a line with a code ends the reply, a hyphen after it or not. *)
IsFinalLine_AnyCode(line) == line.code # NoCode

(* preg_match('/^\d{3}\s/', $line) *)
IsFinalLine(line) == line.code # NoCode /\ line.sep \in PcreWhitespace

(* fgets() returning false (timeout, connection closed) or feof() being true. *)
NoLine == [code |-> NoCode, sep |-> "eof"]

(* $line before the first fgets of a read. *)
Unread == [code |-> NoCode, sep |-> "unset"]

(* What ends the loop of leenelite_smtp_read: a final line, or no line. *)
EndOfRead == {l \in Lines : IsFinalLine(l)} \cup {NoLine}

(* leenelite_smtp_read's return value, from the lines accumulated so far  *)
(* and what ended the loop. *)
leenelite_smtp_read(acc, last) == IF last = NoLine THEN acc ELSE Append(acc, last)

(* Mutant: a read that gave nothing is let through. *)
leenelite_smtp_expect_EmptyIsOk(resp, okCodes) ==
  LET code == IF resp # <<>> /\ resp[1].code # NoCode THEN resp[1].code ELSE 0
  IN  [ok |-> code \in okCodes \/ resp = <<>>, code |-> code, resp |-> resp]

(* Mutant: the code compared is that of the last line of the reply. *)
leenelite_smtp_expect_LastLine(resp, okCodes) ==
  LET code == IF resp # <<>> /\ resp[Len(resp)].code # NoCode
                THEN resp[Len(resp)].code ELSE 0
  IN  [ok |-> code \in okCodes, code |-> code, resp |-> resp]

(* leenelite_smtp_expect: [ok, code, resp]; the code is that of preg_match  *)
(* '/^(\d{3})/' on the whole reply text, that is of its first line. *)
leenelite_smtp_expect(resp, okCodes) ==
  LET code == IF resp # <<>> /\ resp[1].code # NoCode THEN resp[1].code ELSE 0
  IN  [ok |-> code \in okCodes, code |-> code, resp |-> resp]

(* strtolower *)
LowerByte(c) ==
  IF Ord(c) >= 65 /\ Ord(c) <= 90 THEN PrintableAscii[Ord(c) - 31 + 32] ELSE c
strtolower(s) == [i \in 1..Len(s) |-> LowerByte(s[i])]

S_tls == <<"t", "l", "s">>
S_localhost == <<"l", "o", "c", "a", "l", "h", "o", "s", "t">>

(***************************************************************************)
(* State                                                                   *)
(***************************************************************************)
VARIABLES
  cfg,        \* $smtpCfg
  msg,        \* $fromEmail, $fromName, $toEmail, $subject, $body, $extraHeaders
  pc,         \* position in leenelite_send_smtp
  fp,         \* the connection: "none", "open" or "closed"
  opens,      \* connections opened by this call
  closes,     \* times the connection was closed
  crypto,     \* TLS is enabled on the connection
  handshakes, \* calls of stream_socket_enable_crypto
  acc,        \* $data of the leenelite_smtp_read in progress
  lastLine,   \* $line of the current leenelite_smtp_read: what its last fgets gave
  ehloResp,   \* $resp of the rejected EHLO, kept for the HELO failure
  wrote,      \* every fwrite so far: [cmd, bytes, secure]
  replies,    \* every reply read so far: [step, code]
  result,     \* the returned [ok, error_code, debug]
  blocked,    \* seconds the call has spent in operations that ran into $timeout
  req         \* the HTTP request whose handler makes the call, NoRequest if none

vars == <<cfg, msg, pc, fp, opens, closes, crypto, handshakes, acc, lastLine,
          ehloResp, wrote, replies, result, blocked, req>>

(* Mutant: a missing host defaults to localhost. *)
host_DefaultsToLocalhost == Coalesce(cfg.host, S_localhost)

host == Coalesce(cfg.host, <<>>)
helo == Coalesce(cfg.helo, S_localhost)
(* Mutant: the setting is compared as it was written, not lowercased. *)
encryption_CaseSensitive == Coalesce(cfg.encryption, S_tls)

encryption == strtolower(Coalesce(cfg.encryption, S_tls))

(* The diagnostic of a result: a literal text, or the reply text $resp. *)
Debug(text, resp) == [text |-> text, resp |-> resp]

(* The value of result while the call has not returned. *)
NoResult == [ok |-> FALSE, error_code |-> "", debug |-> Debug("", <<>>)]

(* $timeout = (int)($smtpCfg['timeout'] ?? 20): the value passed to        *)
(* stream_socket_client and to stream_set_timeout.                         *)
timeout == 20

(* A blocking operation that ended without its result: by running into     *)
(* $timeout (it then took $timeout seconds) or at once (connection closed, *)
(* refused).                                                               *)
Waited(nothing) ==
  \E timedOut \in BOOLEAN :
    blocked' = IF nothing /\ timedOut THEN blocked + timeout ELSE blocked

(* The call is looked at alone, outside of any request handler. *)
NoRequest == [handler |-> "none"]

Init0 ==
  /\ pc = "call"
  /\ fp = "none"
  /\ opens = 0
  /\ closes = 0
  /\ crypto = FALSE
  /\ handshakes = 0
  /\ acc = <<>>
  /\ lastLine = Unread
  /\ ehloResp = <<>>
  /\ wrote = <<>>
  /\ replies = <<>>
  /\ result = NoResult
  /\ blocked = 0

Init ==
  /\ cfg \in Configs
  /\ msg \in Messages
  /\ Init0
  /\ req = NoRequest

(***************************************************************************)
(* The accepted reply codes of each step, as passed to leenelite_smtp_expect*)
(* and leenelite_smtp_cmd.                                                 *)
(***************************************************************************)
(* Mutants: a step accepts other codes than the source passes. *)
GreetingCodes_Any2xx == {220, 250}
(* Mutant: MAIL FROM answered with 550 is let through. *)
MailFromCodes_Also550 == {250, 550}
StartTlsCodes_Any2xx == {220, 250}
DataCodes_Also250 == {250, 354}
RcptToCodes_Only250 == {250}
DataCodes_250 == {250}

GreetingCodes == {220}
EhloCodes == {250}
HeloCodes == {250}
StartTlsCodes == {220}
EhloTlsCodes == {250}
MailFromCodes == {250}
RcptToCodes == {250, 251}
DataCodes == {354}
MessageCodes == {250}
QuitCodes == {221, 250}

(* The command lines, without the CRLF that leenelite_smtp_cmd appends. *)
EhloCmd == <<"E", "H", "L", "O", " ">> \o helo
(* Mutant: the fallback announces the default domain instead of $helo. *)
HeloCmd_Localhost == <<"H", "E", "L", "O", " ">> \o S_localhost
HeloCmd == <<"H", "E", "L", "O", " ">> \o helo
StartTlsCmd == <<"S", "T", "A", "R", "T", "T", "L", "S">>
MailFromCmd == <<"M", "A", "I", "L", " ", "F", "R", "O", "M", ":", "<">> \o msg.fromEmail \o <<">">>
RcptToCmd == <<"R", "C", "P", "T", " ", "T", "O", ":", "<">> \o msg.toEmail \o <<">">>
DataCmd == <<"D", "A", "T", "A">>
QuitCmd == <<"Q", "U", "I", "T">>

(* One fwrite: what was written, under which name the driver wrote it, and *)
(* whether TLS was enabled on the connection at that moment. *)
Written(cmd, bytes) == [cmd |-> cmd, bytes |-> bytes, secure |-> crypto]

(* fwrite($fp, $cmd . "\r\n") of leenelite_smtp_cmd; the read that follows *)
(* has read no line yet.                                                  *)
fwrite(cmd, bytes) ==
  /\ wrote' = Append(wrote, Written(cmd, bytes \o CRLF))
  /\ lastLine' = Unread

(* Mutant: the failure is returned without its error code. *)
Abort_NoErrorCode(err, debug) ==
  /\ fp' = "closed"
  /\ closes' = closes + 1
  /\ result' = [ok |-> FALSE, error_code |-> "", debug |-> debug]
  /\ pc' = "returned"

(* Mutant: the return without the fclose. *)
Abort_NoClose(err, debug) ==
  /\ result' = [ok |-> FALSE, error_code |-> err, debug |-> debug]
  /\ pc' = "returned"
  /\ UNCHANGED <<fp, closes>>

(* fclose($fp); return [false, $err, $debug]; *)
Abort(err, debug) ==
  /\ fp' = "closed"
  /\ closes' = closes + 1
  /\ result' = [ok |-> FALSE, error_code |-> err, debug |-> debug]
  /\ pc' = "returned"

(* The step was accepted: the call goes on to `next`. *)
Goto(next) ==
  /\ pc' = next
  /\ UNCHANGED <<fp, closes, result>>

(* Mutant: the STARTTLS block is entered whatever the configuration. *)
AfterHelo_AlwaysTls == "starttls"

(* Mutant: the STARTTLS block is skipped. *)
AfterHelo_SkipsTls == "mail"

(* The block that follows an accepted EHLO or HELO: STARTTLS if requested, *)
(* MAIL FROM otherwise. *)
AfterHelo == IF encryption = S_tls THEN "starttls" ELSE "mail"

(***************************************************************************)
(* leenelite_smtp_read: one iteration of the loop that does not end it     *)
(* (fgets returned a line which is not a final line).                      *)
(***************************************************************************)
ReadingPcs == {"greeting", "ehlo_reply", "helo_reply", "starttls_reply", "ehlo_tls_reply",
               "mail_reply", "rcpt_reply", "data_reply", "message_reply", "quit_reply"}

ReadLine ==
  /\ pc \in ReadingPcs
  /\ Len(acc) < MaxReplyLines - 1
  /\ \E line \in Lines :
       /\ ~IsFinalLine(line)
       /\ acc' = Append(acc, line)
       /\ lastLine' = line
  /\ UNCHANGED <<req, blocked, cfg, msg, pc, fp, opens, closes, crypto, handshakes, ehloResp,
                 wrote, replies, result>>

(* The loop of leenelite_smtp_read has no limit of its own: past the lines *)
(* the model keeps in acc, fgets may give one more line that is not final, *)
(* and the loop goes on.  The text of these lines is not kept.             *)
ReadOn ==
  /\ pc \in ReadingPcs
  /\ Len(acc) >= MaxReplyLines - 1
  /\ \E line \in Lines :
       /\ ~IsFinalLine(line)
       /\ lastLine' = line
  /\ UNCHANGED <<req, blocked, cfg, msg, pc, fp, opens, closes, crypto, handshakes, acc,
                 ehloResp, wrote, replies, result>>

(* The end of a leenelite_smtp_expect at step `step`: the read ends with   *)
(* `last`, the reply is parsed and logged. *)
Expect(step, okCodes, last) ==
  leenelite_smtp_expect(leenelite_smtp_read(acc, last), okCodes)

Logged(step, r, last) ==
  /\ replies' = Append(replies, [step |-> step, code |-> r.code])
  /\ acc' = <<>>
  /\ lastLine' = last
  /\ Waited(last = NoLine)

(***************************************************************************)
(* leenelite_send_smtp                                                     *)
(***************************************************************************)
(* Lines 69-93: the host check and the connect. *)
Connect ==
  /\ pc = "call"
  /\ IF host = <<>>
       THEN /\ result' = [ok |-> FALSE, error_code |-> "smtp_no_host",
                          debug |-> Debug("SMTP host missing", <<>>)]
            /\ pc' = "returned"
            /\ UNCHANGED <<fp, opens, blocked>>
       ELSE \E connected \in BOOLEAN :
              IF ~connected
                THEN /\ result' = [ok |-> FALSE, error_code |-> "smtp_connect_failed",
                                   debug |-> Debug("connect errno err", <<>>)]
                     /\ pc' = "returned"
                     /\ Waited(TRUE)
                     /\ UNCHANGED <<fp, opens>>
                ELSE /\ fp' = "open"
                     /\ opens' = opens + 1
                     /\ pc' = "greeting"
                     /\ UNCHANGED <<result, blocked>>
  /\ UNCHANGED <<req, cfg, msg, closes, crypto, handshakes, acc, lastLine, ehloResp, wrote,
                 replies>>

(* Lines 95-100: the 220 greeting. *)
Greeting ==
  /\ pc = "greeting"
  /\ \E last \in EndOfRead :
       LET r == Expect("greeting", GreetingCodes, last)
       IN  /\ Logged("greeting", r, last)
           /\ IF ~r.ok THEN Abort("smtp_bad_greeting", Debug("", r.resp))
              ELSE Goto("ehlo")
  /\ UNCHANGED <<req, cfg, msg, opens, crypto, handshakes, ehloResp, wrote>>

(* Line 103: EHLO is written. *)
Ehlo ==
  /\ pc = "ehlo"
  /\ fwrite("EHLO", EhloCmd)
  /\ pc' = "ehlo_reply"
  /\ UNCHANGED <<req, blocked, cfg, msg, fp, opens, closes, crypto, handshakes, acc, ehloResp,
                 replies, result>>

(* Lines 103-104: the reply to EHLO; a rejection leads to the HELO fallback. *)
EhloReply ==
  /\ pc = "ehlo_reply"
  /\ \E last \in EndOfRead :
       LET r == Expect("ehlo", EhloCodes, last)
       IN  /\ Logged("ehlo", r, last)
           /\ IF ~r.ok THEN /\ ehloResp' = r.resp
                            /\ Goto("helo")
              ELSE /\ Goto(AfterHelo)
                   /\ UNCHANGED ehloResp
  /\ UNCHANGED <<req, cfg, msg, opens, crypto, handshakes, wrote>>

(* Line 106: HELO is written. *)
Helo ==
  /\ pc = "helo"
  /\ fwrite("HELO", HeloCmd)
  /\ pc' = "helo_reply"
  /\ UNCHANGED <<req, blocked, cfg, msg, fp, opens, closes, crypto, handshakes, acc, ehloResp,
                 replies, result>>

(* Lines 106-111: the reply to HELO. *)
HeloReply ==
  /\ pc = "helo_reply"
  /\ \E last \in EndOfRead :
       LET r == Expect("helo", HeloCodes, last)
       IN  /\ Logged("helo", r, last)
           /\ IF ~r.ok THEN Abort("smtp_helo_failed", Debug("", ehloResp \o r.resp))
              ELSE Goto(AfterHelo)
  /\ ehloResp' = <<>>
  /\ UNCHANGED <<req, cfg, msg, opens, crypto, handshakes, wrote>>

(* Lines 114-115: STARTTLS is written (encryption is 'tls'). *)
StartTls ==
  /\ pc = "starttls"
  /\ fwrite("STARTTLS", StartTlsCmd)
  /\ pc' = "starttls_reply"
  /\ UNCHANGED <<req, blocked, cfg, msg, fp, opens, closes, crypto, handshakes, acc, ehloResp,
                 replies, result>>

(* Lines 115-119: the reply to STARTTLS. *)
StartTlsReply ==
  /\ pc = "starttls_reply"
  /\ \E last \in EndOfRead :
       LET r == Expect("starttls", StartTlsCodes, last)
       IN  /\ Logged("starttls", r, last)
           /\ IF ~r.ok THEN Abort("smtp_starttls_failed", Debug("", r.resp))
              ELSE Goto("crypto")
  /\ UNCHANGED <<req, cfg, msg, opens, crypto, handshakes, ehloResp, wrote>>

(* The values stream_socket_enable_crypto returns: true, false, or 0 when  *)
(* there is not enough data yet. *)
CryptoResults == {"true", "false", "0"}

(* Lines 121-125: the TLS handshake on the open socket. *)
EnableCrypto ==
  /\ pc = "crypto"
  /\ handshakes' = handshakes + 1
  /\ \E cryptoOk \in CryptoResults :
       IF cryptoOk # "true"
         THEN /\ Abort("smtp_tls_negotiation_failed", Debug("TLS negotiation failed", <<>>))
              /\ Waited(TRUE)
              /\ UNCHANGED crypto
         ELSE /\ crypto' = TRUE
              /\ Goto("ehlo_tls")
              /\ UNCHANGED blocked
  /\ UNCHANGED <<req, cfg, msg, opens, acc, lastLine, ehloResp, wrote, replies>>

(* Line 128: EHLO is written again, over TLS. *)
EhloTls ==
  /\ pc = "ehlo_tls"
  /\ fwrite("EHLO", EhloCmd)
  /\ pc' = "ehlo_tls_reply"
  /\ UNCHANGED <<req, blocked, cfg, msg, fp, opens, closes, crypto, handshakes, acc, ehloResp,
                 replies, result>>

(* Lines 128-132: the reply to the second EHLO. *)
EhloTlsReply ==
  /\ pc = "ehlo_tls_reply"
  /\ \E last \in EndOfRead :
       LET r == Expect("ehlo_tls", EhloTlsCodes, last)
       IN  /\ Logged("ehlo_tls", r, last)
           /\ IF ~r.ok THEN Abort("smtp_ehlo_after_tls_failed", Debug("", r.resp))
              ELSE Goto("mail")
  /\ UNCHANGED <<req, cfg, msg, opens, crypto, handshakes, ehloResp, wrote>>

(* Line 136: MAIL FROM is written. *)
MailFrom ==
  /\ pc = "mail"
  /\ fwrite("MAIL FROM", MailFromCmd)
  /\ pc' = "mail_reply"
  /\ UNCHANGED <<req, blocked, cfg, msg, fp, opens, closes, crypto, handshakes, acc, ehloResp,
                 replies, result>>

(* Mutant: the rejection of MAIL FROM is not returned; the call goes on. *)
MailFromReply_FallsThrough ==
  /\ pc = "mail_reply"
  /\ \E last \in EndOfRead :
       LET r == leenelite_smtp_expect(leenelite_smtp_read(acc, last), {250})
       IN  /\ replies' = Append(replies, [step |-> "mail", code |-> r.code])
           /\ acc' = <<>>
           /\ lastLine' = last
           /\ Waited(last = NoLine)
  /\ pc' = "rcpt"
  /\ UNCHANGED <<req, cfg, msg, fp, opens, closes, crypto, handshakes, ehloResp, wrote, result>>

(* Lines 136-140: the reply to MAIL FROM. *)
MailFromReply ==
  /\ pc = "mail_reply"
  /\ \E last \in EndOfRead :
       LET r == Expect("mail", MailFromCodes, last)
       IN  /\ Logged("mail", r, last)
           /\ IF ~r.ok THEN Abort("smtp_mail_from_failed", Debug("", r.resp))
              ELSE Goto("rcpt")
  /\ UNCHANGED <<req, cfg, msg, opens, crypto, handshakes, ehloResp, wrote>>

(* Line 143: RCPT TO is written. *)
RcptTo ==
  /\ pc = "rcpt"
  /\ fwrite("RCPT TO", RcptToCmd)
  /\ pc' = "rcpt_reply"
  /\ UNCHANGED <<req, blocked, cfg, msg, fp, opens, closes, crypto, handshakes, acc, ehloResp,
                 replies, result>>

(* Lines 143-147: the reply to RCPT TO. *)
RcptToReply ==
  /\ pc = "rcpt_reply"
  /\ \E last \in EndOfRead :
       LET r == Expect("rcpt", RcptToCodes, last)
       IN  /\ Logged("rcpt", r, last)
           /\ IF ~r.ok THEN Abort("smtp_rcpt_to_failed", Debug("", r.resp))
              ELSE Goto("data")
  /\ UNCHANGED <<req, cfg, msg, opens, crypto, handshakes, ehloResp, wrote>>

(* Line 150: DATA is written. *)
Data ==
  /\ pc = "data"
  /\ fwrite("DATA", DataCmd)
  /\ pc' = "data_reply"
  /\ UNCHANGED <<req, blocked, cfg, msg, fp, opens, closes, crypto, handshakes, acc, ehloResp,
                 replies, result>>

(* Lines 150-154: the reply to DATA. *)
DataReply ==
  /\ pc = "data_reply"
  /\ \E last \in EndOfRead :
       LET r == Expect("data", DataCodes, last)
       IN  /\ Logged("data", r, last)
           /\ IF ~r.ok THEN Abort("smtp_data_failed", Debug("", r.resp))
              ELSE Goto("message")
  /\ UNCHANGED <<req, cfg, msg, opens, crypto, handshakes, ehloResp, wrote>>

(* Lines 156-183: the message is composed and written.  random_bytes()     *)
(* throws when the system has no source of randomness; the exception       *)
(* leaves the function, and PHP closes the stream when the frame that      *)
(* holds $fp is destroyed. *)
SendMessage ==
  /\ pc = "message"
  /\ \/ \E hex \in RandomHex :
          /\ fwrite("MESSAGE", DataMsg(HeaderStr(msg, helo, hex), msg.body))
          /\ pc' = "message_reply"
          /\ UNCHANGED <<fp, closes>>
     \/ /\ pc' = "thrown"
        /\ fp' = "closed"
        /\ closes' = closes + 1
        /\ UNCHANGED <<wrote, lastLine>>
  /\ UNCHANGED <<req, blocked, cfg, msg, opens, crypto, handshakes, acc, ehloResp, replies, result>>

(* Lines 185-189: the reply to the end of the message. *)
MessageReply ==
  /\ pc = "message_reply"
  /\ \E last \in EndOfRead :
       LET r == Expect("message", MessageCodes, last)
       IN  /\ Logged("message", r, last)
           /\ IF ~r.ok THEN Abort("smtp_message_rejected", Debug("", r.resp))
              ELSE Goto("quit")
  /\ UNCHANGED <<req, cfg, msg, opens, crypto, handshakes, ehloResp, wrote>>

(* Line 192: QUIT is written. *)
Quit ==
  /\ pc = "quit"
  /\ fwrite("QUIT", QuitCmd)
  /\ pc' = "quit_reply"
  /\ UNCHANGED <<req, blocked, cfg, msg, fp, opens, closes, crypto, handshakes, acc, ehloResp,
                 replies, result>>

(* Mutant: a QUIT that is not answered with 221 or 250 fails the call. *)
QuitReply_Checked ==
  /\ pc = "quit_reply"
  /\ \E last \in EndOfRead :
       LET r == leenelite_smtp_expect(leenelite_smtp_read(acc, last), {221, 250})
       IN  /\ replies' = Append(replies, [step |-> "quit", code |-> r.code])
           /\ acc' = <<>>
           /\ lastLine' = last
           /\ Waited(last = NoLine)
           /\ result' = IF r.ok THEN [ok |-> TRUE, error_code |-> "", debug |-> Debug("", <<>>)]
                        ELSE [ok |-> FALSE, error_code |-> "smtp_quit_failed",
                              debug |-> Debug("", r.resp)]
  /\ fp' = "closed"
  /\ closes' = closes + 1
  /\ pc' = "returned"
  /\ UNCHANGED <<req, cfg, msg, opens, crypto, handshakes, ehloResp, wrote>>

(* Lines 192-195: the reply to QUIT is read and ignored, the connection is *)
(* closed and success is returned. *)
QuitReply ==
  /\ pc = "quit_reply"
  /\ \E last \in EndOfRead :
       LET r == Expect("quit", QuitCodes, last)
       IN  Logged("quit", r, last)
  /\ fp' = "closed"
  /\ closes' = closes + 1
  /\ result' = [ok |-> TRUE, error_code |-> "", debug |-> Debug("", <<>>)]
  /\ pc' = "returned"
  /\ UNCHANGED <<req, cfg, msg, opens, crypto, handshakes, ehloResp, wrote>>

Next ==
  \/ Connect
  \/ ReadLine
  \/ Greeting
  \/ Ehlo
  \/ EhloReply
  \/ Helo
  \/ HeloReply
  \/ StartTls
  \/ StartTlsReply
  \/ EnableCrypto
  \/ EhloTls
  \/ EhloTlsReply
  \/ MailFrom
  \/ MailFromReply
  \/ RcptTo
  \/ RcptToReply
  \/ Data
  \/ DataReply
  \/ SendMessage
  \/ MessageReply
  \/ Quit
  \/ QuitReply

Spec == Init /\ [][Next]_vars

(***************************************************************************)
(* The call with reads of any length, for what it does in the end.  The    *)
(* PHP process is never stopped for good between two of its steps, and     *)
(* every blocking operation comes back within $timeout (with a line, or    *)
(* with nothing): as long as a step is possible, one is taken.  Which line *)
(* the server sends next is not the program's to decide, so no step of its *)
(* own is owed fairness.                                                   *)
(***************************************************************************)
NextLive ==
  \/ Next
  \/ ReadOn

SpecLive == Init /\ [][NextLive]_vars /\ WF_vars(NextLive)

(***************************************************************************)
(* The form handlers: contact.php, subscribe.php and the reserve/booking   *)
(* endpoint.  A request is [handler, kind, smtpEnabled] with the handler's *)
(* position `at`, the mails it has tried (`sends`: how, to whom, outcome), *)
(* and its HTTP status and JSON body once it has answered.                 *)
(***************************************************************************)
Handlers == {"contact", "subscribe", "reserve"}

(* What the checks before the mail section make of the request. *)
RequestKinds == {"not_post", "honeypot", "invalid_email", "valid"}

VisitorEmail == <<"v", "@", "z">>

(* $cfg['smtp'] of config/form-config.php: the relay with STARTTLS. *)
HandlerCfg ==
  [host |-> Given(<<"r", "e", "l", "a", "y">>), helo |-> Given(<<"m", "x">>),
   encryption |-> Given(<<"t", "l", "s">>)]

(* leenelite_send_smtp($smtp, $fromEmail, $fromName, $to, $subject, $body,  *)
(*                     ['Reply-To' => $email])                             *)
AdminMessage ==
  [fromEmail |-> FromEmail, fromName |-> <<"N">>, toEmail |-> ToEmail,
   subject |-> <<"H", "i">>, body |-> <<"a">>,
   extraHeaders |-> <<[key |-> H_ReplyTo, val |-> VisitorEmail]>>]

(* leenelite_send_smtp($smtp, $fromEmail, $fromName, $email, $userSubject,  *)
(*                     $userBody, ['Reply-To' => $to])                     *)
UserMessage ==
  [fromEmail |-> FromEmail, fromName |-> <<"N">>, toEmail |-> VisitorEmail,
   subject |-> <<"H", "i">>, body |-> <<"a">>,
   extraHeaders |-> <<[key |-> H_ReplyTo, val |-> ToEmail]>>]

NoBody == [ok |-> FALSE, error |-> "", user_mail_sent |-> "absent"]

Requests ==
  [handler : Handlers, kind : RequestKinds, smtpEnabled : BOOLEAN, at : {"request"},
   sends : {<<>>}, status : {200}, body : {NoBody}]

(* http_response_code($status); echo json_encode(...); the script ends. *)
Responded(r, status, ok, error, userMailSent) ==
  [r EXCEPT !.at = "done", !.status = status,
            !.body = [ok |-> ok, error |-> error, user_mail_sent |-> userMailSent]]

(* One more mail is tried. *)
Tried(r, via, to, outcome) ==
  [r EXCEPT !.sends = Append(@, [via |-> via, to |-> to, ok |-> outcome])]

(* The mail tried last has come back with $ok. *)
Outcome(r, ok) ==
  [r EXCEPT !.sends[Len(r.sends)].ok = IF ok THEN "true" ELSE "false"]

BoolText(b) == IF b THEN "true" ELSE "false"

(* leenelite_send_smtp is called: a fresh activation of the function. *)
BeginCall(m) ==
  /\ msg' = m
  /\ pc' = "call"
  /\ fp' = "none"
  /\ opens' = 0
  /\ closes' = 0
  /\ crypto' = FALSE
  /\ handshakes' = 0
  /\ acc' = <<>>
  /\ lastLine' = Unread
  /\ ehloResp' = <<>>
  /\ wrote' = <<>>
  /\ replies' = <<>>
  /\ result' = NoResult
  /\ blocked' = 0
  /\ UNCHANGED cfg

NoCall ==
  UNCHANGED <<cfg, msg, pc, fp, opens, closes, crypto, handshakes, acc, lastLine,
              ehloResp, wrote, replies, result, blocked>>

InHandler(at) == req.handler # "none" /\ req.at = at

(* The method check, the honeypot and the validation of the fields. *)
Validate ==
  /\ InHandler("request")
  /\ req' = CASE req.kind = "not_post" ->
                   Responded(req, 405, FALSE, "method_not_allowed", "absent")
              [] req.kind = "honeypot" -> Responded(req, 200, TRUE, "", "absent")
              [] req.kind = "invalid_email" ->
                   Responded(req, 400, FALSE, "invalid_email", "absent")
              [] OTHER -> [req EXCEPT !.at = "admin"]
  /\ NoCall

(* Mutant: the auto-reply is tried whether the admin mail was sent or not. *)
AfterAdmin_BestEffort(r, sentAdmin) == [r EXCEPT !.at = "user"]

(* if (!$sentAdmin) { http_response_code(500); ... 'send_failed'; exit; } *)
AfterAdmin(r, sentAdmin) ==
  IF ~sentAdmin THEN Responded(r, 500, FALSE, "send_failed", "absent")
  ELSE [r EXCEPT !.at = "user"]

(* contact.php 73-97, subscribe.php 123-144: the admin notification. *)
AdminNotify ==
  /\ InHandler("admin")
  /\ req.handler \in {"contact", "subscribe"}
  /\ IF req.smtpEnabled
       THEN /\ BeginCall(AdminMessage)
            /\ req' = [Tried(req, "smtp", "admin", "pending") EXCEPT !.at = "admin_smtp"]
       ELSE /\ \E sent \in BOOLEAN :
                 req' = AfterAdmin(Tried(req, "mail", "admin", BoolText(sent)), sent)
            /\ NoCall

(* The call for the admin notification has returned [$ok, $err, $dbg]. *)
AdminReturned ==
  /\ InHandler("admin_smtp")
  /\ pc = "returned"
  /\ req' = AfterAdmin(Outcome(req, result.ok), result.ok)
  /\ NoCall

(* The reserve endpoint: $sent = @mail(...); 500 'send_failed' or ok. *)
ReserveNotify ==
  /\ InHandler("admin")
  /\ req.handler = "reserve"
  /\ \E sent \in BOOLEAN :
       req' = LET r == Tried(req, "mail", "admin", BoolText(sent))
              IN  IF ~sent THEN Responded(r, 500, FALSE, "send_failed", "absent")
                  ELSE Responded(r, 200, TRUE, "", "absent")
  /\ NoCall

(* contact.php 120-141, subscribe.php 170-203: the auto-reply, best-effort. *)
UserReply ==
  /\ InHandler("user")
  /\ IF req.smtpEnabled
       THEN /\ BeginCall(UserMessage)
            /\ req' = [Tried(req, "smtp", "visitor", "pending") EXCEPT !.at = "user_smtp"]
       ELSE /\ \E sent \in BOOLEAN :
                 req' = Responded(Tried(req, "mail", "visitor", BoolText(sent)),
                                  200, TRUE, "", BoolText(sent))
            /\ NoCall

(* The call for the auto-reply has returned: ok:true, user_mail_sent. *)
UserReturned ==
  /\ InHandler("user_smtp")
  /\ pc = "returned"
  /\ req' = Responded(Outcome(req, result.ok), 200, TRUE, "", BoolText(result.ok))
  /\ NoCall

(* The call was left by an exception, which no handler catches: the script *)
(* dies with PHP's fatal error.                                            *)
Uncaught ==
  /\ req.handler # "none"
  /\ req.at \in {"admin_smtp", "user_smtp"}
  /\ pc = "thrown"
  /\ req' = [req EXCEPT !.at = "crashed", !.status = 500]
  /\ NoCall

(* A request has come in; leenelite_send_smtp has not been called yet. *)
InitHandlers ==
  /\ cfg = HandlerCfg
  /\ msg = AdminMessage
  /\ pc = "idle"
  /\ fp = "none"
  /\ opens = 0
  /\ closes = 0
  /\ crypto = FALSE
  /\ handshakes = 0
  /\ acc = <<>>
  /\ lastLine = Unread
  /\ ehloResp = <<>>
  /\ wrote = <<>>
  /\ replies = <<>>
  /\ result = NoResult
  /\ blocked = 0
  /\ req \in Requests

NextHandlers ==
  \/ Next
  \/ Validate
  \/ AdminNotify
  \/ AdminReturned
  \/ ReserveNotify
  \/ UserReply
  \/ UserReturned
  \/ Uncaught

SpecHandlers == InitHandlers /\ [][NextHandlers]_vars

(***************************************************************************)
(* The composer specification: the call has had DATA accepted on a         *)
(* plaintext session and composes and writes the message, for every body   *)
(* up to MaxBodyLen.                                                       *)
(***************************************************************************)
ComposerCfg ==
  [host |-> Given(<<"r", "e", "l", "a", "y">>), helo |-> Given(<<"m", "x">>),
   encryption |-> Given(<<"n", "o", "n", "e">>)]

InitCompose ==
  /\ cfg = ComposerCfg
  /\ msg \in ComposerMessages
  /\ pc = "message"
  /\ fp = "open"
  /\ opens = 1
  /\ closes = 0
  /\ crypto = FALSE
  /\ handshakes = 0
  /\ acc = <<>>
  /\ lastLine = [code |-> 354, sep |-> " "]
  /\ ehloResp = <<>>
  /\ wrote = << Written("EHLO", EhloCmd \o CRLF), Written("MAIL FROM", MailFromCmd \o CRLF),
                Written("RCPT TO", RcptToCmd \o CRLF), Written("DATA", DataCmd \o CRLF) >>
  /\ replies = << [step |-> "greeting", code |-> 220], [step |-> "ehlo", code |-> 250],
                  [step |-> "mail", code |-> 250], [step |-> "rcpt", code |-> 250],
                  [step |-> "data", code |-> 354] >>
  /\ result = NoResult
  /\ blocked = 0
  /\ req = NoRequest

NextCompose == SendMessage

SpecCompose == InitCompose /\ [][NextCompose]_vars

(***************************************************************************)
(* The header specification: the same point of the call, for every subject *)
(* up to MaxSubjectLen and every array of extra headers.                   *)
(***************************************************************************)
InitHeaders ==
  /\ cfg = ComposerCfg
  /\ msg \in HeaderMessages
  /\ pc = "message"
  /\ fp = "open"
  /\ opens = 1
  /\ closes = 0
  /\ crypto = FALSE
  /\ handshakes = 0
  /\ acc = <<>>
  /\ lastLine = [code |-> 354, sep |-> " "]
  /\ ehloResp = <<>>
  /\ wrote = << Written("EHLO", EhloCmd \o CRLF), Written("MAIL FROM", MailFromCmd \o CRLF),
                Written("RCPT TO", RcptToCmd \o CRLF), Written("DATA", DataCmd \o CRLF) >>
  /\ replies = << [step |-> "greeting", code |-> 220], [step |-> "ehlo", code |-> 250],
                  [step |-> "mail", code |-> 250], [step |-> "rcpt", code |-> 250],
                  [step |-> "data", code |-> 354] >>
  /\ result = NoResult
  /\ blocked = 0
  /\ req = NoRequest

SpecHeaders == InitHeaders /\ [][NextCompose]_vars

(***************************************************************************)
(* The header-building specification: the same point of the call, for      *)
(* messages with empty fields and entries that build no header line.       *)
(***************************************************************************)
InitBuild ==
  /\ cfg = ComposerCfg
  /\ msg \in BuildMessages
  /\ pc = "message"
  /\ fp = "open"
  /\ opens = 1
  /\ closes = 0
  /\ crypto = FALSE
  /\ handshakes = 0
  /\ acc = <<>>
  /\ lastLine = [code |-> 354, sep |-> " "]
  /\ ehloResp = <<>>
  /\ wrote = << Written("EHLO", EhloCmd \o CRLF), Written("MAIL FROM", MailFromCmd \o CRLF),
                Written("RCPT TO", RcptToCmd \o CRLF), Written("DATA", DataCmd \o CRLF) >>
  /\ replies = << [step |-> "greeting", code |-> 220], [step |-> "ehlo", code |-> 250],
                  [step |-> "mail", code |-> 250], [step |-> "rcpt", code |-> 250],
                  [step |-> "data", code |-> 354] >>
  /\ result = NoResult
  /\ blocked = 0
  /\ req = NoRequest

SpecBuild == InitBuild /\ [][NextCompose]_vars

(***************************************************************************)
(* What the claims speak of                                                *)
(***************************************************************************)
Returned == pc = "returned"
CodesRead == [i \in 1..Len(replies) |-> replies[i].code]
CmdsWritten == [i \in 1..Len(wrote) |-> wrote[i].cmd]
LastReply == replies[Len(replies)]
IsPrefix(s, t) == Len(s) <= Len(t) /\ \A i \in 1..Len(s) : s[i] = t[i]
HostMissing == ~cfg.host.isset \/ cfg.host.val = <<>>
TlsRequested == strtolower(Coalesce(cfg.encryption, S_tls)) = S_tls

(* C1: a connection that was opened is closed exactly once, and is closed  *)
(* when the call has returned, whichever step ended it; at most one         *)
(* connection is opened; when none was opened (no host, connect failed)     *)
(* nothing is closed.                                                       *)
C1_ClosedExactlyOnce ==
  /\ opens <= 1
  /\ closes <= opens
  /\ (fp = "open") <=> (opens = 1 /\ closes = 0)
  /\ pc \in {"returned", "thrown"} => fp # "open"
  /\ Returned =>
       /\ closes = opens
       /\ (opens = 0) <=> (result.error_code \in {"smtp_no_host", "smtp_connect_failed"})
       /\ opens = 0 => fp = "none"
       /\ opens = 1 => fp = "closed"

(* A call that ended on an empty read of the reply to the message. *)
C1_Witness ==
  /\ Returned
  /\ result.error_code = "smtp_message_rejected"
  /\ LastReply.code = 0
  /\ opens = 1
  /\ closes = 1

(* The acceptance table of the steps C2 names: step, accepted codes, error. *)
C2_Table ==
  { <<"ehlo_tls", {250}, "smtp_ehlo_after_tls_failed">>,
    <<"mail", {250}, "smtp_mail_from_failed">>,
    <<"rcpt", {250, 251}, "smtp_rcpt_to_failed">>,
    <<"data", {354}, "smtp_data_failed">>,
    <<"message", {250}, "smtp_message_rejected">> }

(* C2: a reply outside the accepted codes of its step (second EHLO, MAIL   *)
(* FROM, RCPT TO, DATA, end of message) is the last reply read and the call *)
(* has returned that step's error code; and a call that returned one of    *)
(* these error codes read, last, a reply of that step outside its accepted *)
(* codes.                                                                  *)
C2_ErrorNamesFailingStep ==
  \A t \in C2_Table :
    /\ \A i \in 1..Len(replies) :
         (replies[i].step = t[1] /\ replies[i].code \notin t[2]) =>
            /\ i = Len(replies)
            /\ Returned
            /\ ~result.ok
            /\ result.error_code = t[3]
    /\ (Returned /\ result.error_code = t[3]) =>
         /\ replies # <<>>
         /\ LastReply.step = t[1]
         /\ LastReply.code \notin t[2]

(* DATA answered with 250 instead of 354. *)
C2_Witness ==
  /\ Returned
  /\ result.error_code = "smtp_data_failed"
  /\ LastReply = [step |-> "data", code |-> 250]

(* The replies of a successful exchange up to the end of the message, on a *)
(* plaintext session and on a STARTTLS session.                            *)
C3_PlainReplies == <<220, 250, 250, 250, 354, 250>>
C3_TlsReplies == <<220, 250, 220, 250, 250, 250, 354, 250>>
C3_SpecReplies == <<220, 250, 250, 250, 250, 354, 250>>

(* C3 as stated: a server replying 220, 250, 250, 250, 250, 354, 250 in    *)
(* order makes the call return success with an empty error code.           *)
C3_AsStated ==
  (Returned /\ opens = 1 /\ IsPrefix(CodesRead, C3_SpecReplies)) =>
     (result.ok /\ result.error_code = "")

(* C3 amended: when the server replies 220, 250, 250, 250, 354, 250 on a   *)
(* session without STARTTLS, or 220, 250, 220, 250, 250, 250, 354, 250 on  *)
(* a session with STARTTLS whose handshake succeeds, the call does not     *)
(* return before it has read them all and QUIT's reply, and what it        *)
(* returns is success with an empty error code.                            *)
C3_SuccessfulExchange ==
  LET script == IF TlsRequested THEN C3_TlsReplies ELSE C3_PlainReplies
      read == IF Len(CodesRead) > Len(script)
                THEN SubSeq(CodesRead, 1, Len(script)) ELSE CodesRead
  IN  (/\ Returned
       /\ opens = 1
       /\ IsPrefix(read, script)
       /\ handshakes = 1 => crypto)
      => /\ result.ok
         /\ result.error_code = ""
         /\ Len(CodesRead) = Len(script) + 1

C3_Witness ==
  /\ Returned
  /\ result.ok
  /\ TlsRequested
  /\ SubSeq(CodesRead, 1, 8) = C3_TlsReplies

(* The lines of a text, split at every CRLF. *)
RECURSIVE SplitFrom(_, _, _)
SplitFrom(s, i, start) ==
  IF i > Len(s) THEN <<SubSeq(s, start, Len(s))>>
  ELSE IF MatchAt(s, i, CRLF) THEN <<SubSeq(s, start, i - 1)>> \o SplitFrom(s, i + 2, i + 2)
  ELSE SplitFrom(s, i + 1, start)

SplitCRLF(s) == SplitFrom(s, 1, 1)

(* The writes of the message payload. *)
MessageWrites == {i \in 1..Len(wrote) : wrote[i].cmd = "MESSAGE"}

(* The body part of a written payload: what stands between the first empty *)
(* line and the closing CRLF "." CRLF.                                     *)
TransmittedBody(bytes) ==
  LET blank == {i \in 1..Len(bytes) : MatchAt(bytes, i, CRLF \o CRLF)}
      p == CHOOSE i \in blank : \A j \in blank : i <= j
  IN  SubSeq(bytes, p + 4, Len(bytes) - 5)

BeginsWithDot(line) == line # <<>> /\ line[1] = "."

(* C4 as stated: every line of the normalized body that begins with '.',   *)
(* the first line included, is transmitted with exactly one '.' prepended, *)
(* and every other line is transmitted unchanged.                          *)
C4_EveryDotLineStuffed ==
  \A i \in MessageWrites :
    LET norm == SplitCRLF(NormalizeBody(msg.body))
        sent == SplitCRLF(TransmittedBody(wrote[i].bytes))
    IN  /\ Len(sent) = Len(norm)
        /\ \A k \in 1..Len(norm) :
             sent[k] = IF BeginsWithDot(norm[k]) THEN <<".">> \o norm[k] ELSE norm[k]

(* Where the lines of a text start, and the starts of its lines that are a *)
(* lone '.'.                                                               *)
LineStarts(s) == {1} \cup {i + 2 : i \in {j \in 1..Len(s) : MatchAt(s, j, CRLF)}}

LoneDotLines(s) ==
  {p \in LineStarts(s) :
     /\ p <= Len(s)
     /\ s[p] = "."
     /\ (p = Len(s) \/ MatchAt(s, p + 1, CRLF))}

(* C5 as stated: the data written after the 354 reply holds a line that is *)
(* a lone '.' exactly once, as its last line.                              *)
C5_LoneDotOnlyLast ==
  \A i \in MessageWrites :
    LET bytes == wrote[i].bytes
        text == SubSeq(bytes, 1, Len(bytes) - 2)
    IN  /\ SubSeq(bytes, Len(bytes) - 1, Len(bytes)) = CRLF
        /\ LoneDotLines(text) = {Len(text)}

(* C6: with the host missing or empty the call returns smtp_no_host; no    *)
(* socket is opened (or closed), nothing is written, nothing is read and   *)
(* no handshake is made.                                                   *)
C6_NoHost ==
  HostMissing =>
    /\ pc \in {"call", "returned"}
    /\ fp = "none" /\ opens = 0 /\ closes = 0
    /\ wrote = <<>> /\ replies = <<>> /\ acc = <<>> /\ handshakes = 0
    /\ Returned => (~result.ok /\ result.error_code = "smtp_no_host")

(* The host key is absent from the configuration and the call returned. *)
C6_Witness == ~cfg.host.isset /\ Returned /\ result.error_code = "smtp_no_host"

(* C7: when the first reply read after connecting has a code other than    *)
(* 220 the call has returned smtp_bad_greeting, no command was written, no *)
(* other reply was read and the connection is closed.                      *)
C7_BadGreeting ==
  /\ (replies # <<>> /\ replies[1].code # 220) =>
        /\ Returned
        /\ ~result.ok
        /\ result.error_code = "smtp_bad_greeting"
        /\ wrote = <<>>
        /\ Len(replies) = 1
        /\ fp = "closed" /\ closes = 1
  /\ replies # <<>> => replies[1].step = "greeting"

(* The server greeted with 250. *)
C7_Witness == replies # <<>> /\ replies[1].code = 250 /\ Returned

(* The domain a written EHLO or HELO line announces. *)
DomainOf(w) == SubSeq(w.bytes, 6, Len(w.bytes) - 2)
HeloWrites == {i \in 1..Len(wrote) : wrote[i].cmd = "HELO"}
EhloRejected == Len(replies) >= 2 /\ replies[2].code # 250
HeloAnswered == Len(replies) >= 3 /\ replies[3].step = "helo"
(* The command that follows an accepted EHLO, and where the call stands   *)
(* before writing it.                                                      *)
CmdAfterEhlo == IF TlsRequested THEN "STARTTLS" ELSE "MAIL FROM"
PcAfterEhlo == IF TlsRequested THEN "starttls" ELSE "mail"

(* C8: the reply to the first EHLO decides the fallback: HELO is written   *)
(* only after EHLO was answered with a code other than 250, then exactly   *)
(* once, right after EHLO and with EHLO's domain; a HELO answered with a   *)
(* code other than 250 ends the call with smtp_helo_failed; after a HELO   *)
(* answered with 250 the call is where an accepted EHLO leaves it, and the *)
(* next command is the one that follows an accepted EHLO.                  *)
C8_HeloFallback ==
  /\ Len(replies) >= 2 => replies[2].step = "ehlo"
  /\ HeloWrites # {} => (EhloRejected /\ HeloWrites = {2})
  /\ (EhloRejected /\ pc # "helo") =>
        /\ HeloWrites = {2}
        /\ wrote[1].cmd = "EHLO"
        /\ DomainOf(wrote[2]) = DomainOf(wrote[1])
        /\ SubSeq(wrote[2].bytes, 1, 5) = <<"H", "E", "L", "O", " ">>
  /\ (HeloAnswered /\ replies[3].code # 250) =>
        /\ Returned
        /\ ~result.ok
        /\ result.error_code = "smtp_helo_failed"
        /\ Len(replies) = 3
        /\ Len(wrote) = 2
  /\ (HeloAnswered /\ replies[3].code = 250) =>
        /\ Len(replies) = 3 /\ Len(wrote) = 2 => pc = PcAfterEhlo
        /\ Len(wrote) >= 3 => wrote[3].cmd = CmdAfterEhlo
  /\ (Len(replies) >= 2 /\ replies[2].code = 250) =>
        /\ Len(replies) = 2 /\ Len(wrote) = 1 => pc = PcAfterEhlo
        /\ Len(wrote) >= 2 => wrote[2].cmd = CmdAfterEhlo
  /\ Returned /\ result.error_code = "smtp_helo_failed" =>
        HeloAnswered /\ replies[3].code # 250 /\ EhloRejected

(* EHLO was rejected, HELO accepted, and the call went on to success. *)
C8_Witness ==
  /\ EhloRejected
  /\ HeloAnswered
  /\ replies[3].code = 250
  /\ Returned
  /\ result.ok

StartTlsWrites == {i \in 1..Len(wrote) : wrote[i].cmd = "STARTTLS"}
StartTlsReplies == {i \in 1..Len(replies) : replies[i].step = "starttls"}

(* C9: a reply to STARTTLS other than 220 ends the call with               *)
(* smtp_starttls_failed and no handshake was attempted; a handshake that   *)
(* fails (after a 220 reply) ends it with smtp_tls_negotiation_failed; in  *)
(* both cases STARTTLS is the last command written.                        *)
C9_StartTlsFailures ==
  /\ \A i \in StartTlsReplies :
       replies[i].code # 220 =>
          /\ Returned
          /\ ~result.ok
          /\ result.error_code = "smtp_starttls_failed"
          /\ handshakes = 0
          /\ i = Len(replies)
          /\ wrote[Len(wrote)].cmd = "STARTTLS"
  /\ handshakes > 0 =>
       /\ handshakes = 1
       /\ \E i \in StartTlsReplies : replies[i].code = 220
  /\ (handshakes = 1 /\ ~crypto) =>
       /\ Returned
       /\ ~result.ok
       /\ result.error_code = "smtp_tls_negotiation_failed"
       /\ LastReply = [step |-> "starttls", code |-> 220]
       /\ wrote[Len(wrote)].cmd = "STARTTLS"
  /\ (Returned /\ result.error_code = "smtp_starttls_failed") =>
       (LastReply.step = "starttls" /\ LastReply.code # 220)
  /\ (Returned /\ result.error_code = "smtp_tls_negotiation_failed") =>
       (handshakes = 1 /\ ~crypto)
  /\ StartTlsWrites # {} => TlsRequested

(* STARTTLS was answered with 220 and the handshake then failed. *)
C9_Witness ==
  /\ Returned
  /\ result.error_code = "smtp_tls_negotiation_failed"
  /\ handshakes = 1

EnvelopeCmds == {"MAIL FROM", "RCPT TO", "DATA", "MESSAGE"}

(* C10: with encryption tls, MAIL FROM, RCPT TO, DATA and the message are  *)
(* written only on a connection on which STARTTLS was answered with 220    *)
(* and the handshake then succeeded, also after the HELO fallback.         *)
C10_EnvelopeOnlyOverTls ==
  TlsRequested =>
    \A i \in 1..Len(wrote) :
      wrote[i].cmd \in EnvelopeCmds =>
        /\ wrote[i].secure
        /\ crypto
        /\ handshakes = 1
        /\ \E j \in StartTlsReplies : replies[j].code = 220
        /\ \E k \in 1..(i - 1) : wrote[k].cmd = "STARTTLS" /\ ~wrote[k].secure

(* The message was written on a TLS session opened after the HELO fallback. *)
C10_Witness ==
  /\ TlsRequested
  /\ HeloWrites # {}
  /\ MessageWrites # {}

EhloWrites == {i \in 1..Len(wrote) : wrote[i].cmd = "EHLO"}
Count(cmd) == Cardinality({i \in 1..Len(wrote) : wrote[i].cmd = cmd})

(* C11: STARTTLS, the handshake and the second EHLO happen only with       *)
(* encryption tls; otherwise STARTTLS is never written, no handshake is    *)
(* made, EHLO is written once and the command that follows the accepted    *)
(* EHLO or HELO is MAIL FROM.                                              *)
C11_TlsBranchOnlyWhenRequested ==
  /\ (StartTlsWrites # {} \/ handshakes > 0 \/ crypto \/ Count("EHLO") > 1
        \/ \E i \in 1..Len(replies) : replies[i].step \in {"starttls", "ehlo_tls"})
       => TlsRequested
  /\ ~TlsRequested =>
       /\ pc \notin {"starttls", "starttls_reply", "crypto", "ehlo_tls", "ehlo_tls_reply"}
       /\ \A i \in 1..Len(wrote) :
            wrote[i].cmd \in {"EHLO", "HELO"} =>
               (i < Len(wrote) => wrote[i + 1].cmd \in {"HELO", "MAIL FROM"})
       /\ \A i \in 1..Len(wrote) : wrote[i].cmd = "HELO" =>
               (i < Len(wrote) => wrote[i + 1].cmd = "MAIL FROM")
       /\ \A i \in 1..Len(wrote) : ~wrote[i].secure

(* A plaintext session went from the accepted EHLO straight to MAIL FROM   *)
(* and on to success.                                                      *)
C11_Witness ==
  /\ ~TlsRequested
  /\ Returned /\ result.ok
  /\ Len(wrote) >= 2 /\ wrote[1].cmd = "EHLO" /\ wrote[2].cmd = "MAIL FROM"

(* The order of the commands, for a call with or without the HELO fallback *)
(* and with or without STARTTLS.                                           *)
C12_Order ==
  <<"EHLO">> \o (IF HeloWrites # {} THEN <<"HELO">> ELSE <<>>)
    \o (IF TlsRequested THEN <<"STARTTLS", "EHLO">> ELSE <<>>)
    \o <<"MAIL FROM", "RCPT TO", "DATA", "MESSAGE", "QUIT">>

(* The reply codes that let the driver go on after a command. *)
C12_Accepted(cmd) ==
  CASE cmd = "STARTTLS" -> {220}
    [] cmd = "RCPT TO" -> {250, 251}
    [] cmd = "DATA" -> {354}
    [] OTHER -> {250}

(* C12: the commands written are a prefix of EHLO, [HELO], [STARTTLS,      *)
(* EHLO], MAIL FROM, RCPT TO, DATA, message, QUIT; the i-th command is     *)
(* written after i replies were read (the greeting and one per earlier     *)
(* command), never ahead of the reply to the command before it, and the    *)
(* reply to the command before it was in that command's accepted set (for  *)
(* HELO: EHLO's reply was not); the message follows a 354 reply to DATA.   *)
C12_OneAtATimeInOrder ==
  /\ IsPrefix(CmdsWritten, C12_Order)
  /\ Len(wrote) <= Len(replies)
  /\ Len(replies) <= Len(wrote) + 1
  /\ replies # <<>> => replies[1].code = 220 \/ wrote = <<>>
  /\ \A i \in 2..Len(wrote) :
       IF wrote[i].cmd = "HELO" THEN replies[i].code # 250
       ELSE replies[i].code \in C12_Accepted(wrote[i - 1].cmd)
  /\ \A i \in MessageWrites : replies[i] = [step |-> "data", code |-> 354]
  /\ \A i \in 1..Len(wrote) : wrote[i].cmd = "QUIT" => replies[i] = [step |-> "message", code |-> 250]

(* A STARTTLS session after the HELO fallback wrote all nine commands. *)
C12_Witness ==
  /\ Len(wrote) = 9
  /\ wrote[2].cmd = "HELO"
  /\ wrote[9].cmd = "QUIT"

(* The command a reply of a step answers. *)
C13_CmdOfStep(step) ==
  CASE step = "ehlo" -> "EHLO"
    [] step = "helo" -> "HELO"
    [] step = "starttls" -> "STARTTLS"
    [] step = "ehlo_tls" -> "EHLO"
    [] step = "mail" -> "MAIL FROM"
    [] step = "rcpt" -> "RCPT TO"
    [] step = "data" -> "DATA"
    [] step = "message" -> "MESSAGE"
    [] step = "quit" -> "QUIT"
    [] OTHER -> "none"

(* The reply codes that do not fail a step. *)
C13_Accepted(step) ==
  CASE step \in {"greeting", "starttls"} -> {220}
    [] step = "rcpt" -> {250, 251}
    [] step = "data" -> {354}
    [] OTHER -> {250}

(* C13: a reply that fails its step (any reply outside the step's accepted *)
(* codes, but for EHLO's, which leads to the fallback, and QUIT's) is the  *)
(* last reply read and nothing is written after it; when the call has      *)
(* returned a failure, every command written had                           *)
(* its reply read and the last thing written (if anything) is the command  *)
(* whose reply, or whose handshake, failed: nothing follows it and QUIT    *)
(* was not written; and in every call HELO, STARTTLS, MAIL FROM, RCPT TO,  *)
(* DATA, the message and QUIT are written at most once and EHLO at most    *)
(* twice.                                                                  *)
C13_NothingAfterFailure ==
  /\ (Returned /\ ~result.ok) =>
        /\ Count("QUIT") = 0
        /\ opens = 0 => (wrote = <<>> /\ replies = <<>>)
        /\ opens = 1 => Len(replies) = Len(wrote) + 1
        /\ wrote # <<>> => wrote[Len(wrote)].cmd = C13_CmdOfStep(LastReply.step)
  /\ \A i \in 1..Len(replies) :
        (/\ replies[i].step \notin {"ehlo", "quit"}
         /\ replies[i].code \notin C13_Accepted(replies[i].step)) =>
            /\ i = Len(replies)
            /\ Len(wrote) = i - 1
            /\ Returned
  /\ \A c \in {"HELO", "STARTTLS", "MAIL FROM", "RCPT TO", "DATA", "MESSAGE", "QUIT"} :
        Count(c) <= 1
  /\ Count("EHLO") <= 2

(* RCPT TO was rejected: four commands on a STARTTLS session and nothing   *)
(* after RCPT TO.                                                          *)
C13_Witness ==
  /\ Returned
  /\ result.error_code = "smtp_rcpt_to_failed"
  /\ wrote[Len(wrote)].cmd = "RCPT TO"
  /\ Count("EHLO") = 2

(* C14: once the reply to the end of the message is 250 the call returns   *)
(* success whatever QUIT's reply is, and the connection is closed when it  *)
(* returns.                                                                *)
C14_QuitDoesNotMatter ==
  (\E i \in 1..Len(replies) : replies[i] = [step |-> "message", code |-> 250]) =>
     /\ pc \in {"quit", "quit_reply", "returned"}
     /\ Returned =>
          /\ result.ok
          /\ result.error_code = ""
          /\ fp = "closed"
          /\ closes = 1
          /\ LastReply.step = "quit"

(* QUIT got no reply, or a reply that is neither 221 nor 250. *)
C14_Witness ==
  /\ Returned
  /\ result.ok
  /\ LastReply.step = "quit"
  /\ LastReply.code \in {0, 550}

(* C15: in every returned result the error code is empty exactly when the  *)
(* result is a success.                                                    *)
C15_ErrorEmptyIffSuccess ==
  Returned => ((result.error_code = "") <=> result.ok)

C15_Witness == Returned /\ ~result.ok /\ result.error_code = "smtp_helo_failed"

C16_ErrorCodes ==
  {"smtp_no_host", "smtp_connect_failed", "smtp_tls_negotiation_failed",
   "smtp_bad_greeting", "smtp_helo_failed", "smtp_starttls_failed",
   "smtp_ehlo_after_tls_failed", "smtp_mail_from_failed", "smtp_rcpt_to_failed",
   "smtp_data_failed", "smtp_message_rejected"}

(* C16 as stated: a call ends in no other way than by returning a result   *)
(* (never by an exception), and a failure carries one of the eleven error  *)
(* codes.                                                                  *)
C16_AlwaysAResult ==
  /\ pc # "thrown"
  /\ (Returned /\ ~result.ok) => result.error_code \in C16_ErrorCodes

(* The header block of a written payload: what stands before the first     *)
(* empty line.                                                             *)
HeaderBlock(bytes) ==
  LET blank == {i \in 1..Len(bytes) : MatchAt(bytes, i, CRLF \o CRLF)}
      p == CHOOSE i \in blank : \A j \in blank : i <= j
  IN  SubSeq(bytes, 1, p - 1)

(* The line of s that starts at position p. *)
LineAt(s, p) ==
  LET ends == {q \in p..Len(s) : MatchAt(s, q, CRLF)}
      q == IF ends = {} THEN Len(s) + 1 ELSE CHOOSE e \in ends : \A f \in ends : e <= f
  IN  SubSeq(s, p, q - 1)

(* The values of the lines of a header block that carry the given name. *)
HeaderValues(block, name) ==
  LET tag == name \o <<":", " ">>
  IN  {SubSeq(LineAt(block, p), Len(tag) + 1, Len(LineAt(block, p))) :
         p \in {q \in LineStarts(block) : MatchAt(block, q, tag)}}

(* The Subject value the composer built, as the header line carries it. *)
SubjectBuilt == trim(leenelite_encode_header_utf8(msg.subject))

C17_FixedLines(hex) ==
  << H_Date \o <<":", " ">> \o DateR,
     H_From \o <<":", " ">> \o FromHeader(msg.fromName, msg.fromEmail),
     H_To \o <<":", " ">> \o msg.toEmail,
     H_Subject \o <<":", " ">> \o SubjectBuilt,
     H_MessageID \o <<":", " ", "<">> \o hex \o <<"@">> \o Coalesce(cfg.helo, S_localhost) \o <<">">>,
     H_MIMEVersion \o <<":", " ">> \o V_MIMEVersion,
     H_ContentType \o <<":", " ">> \o V_ContentType,
     H_ContentTransferEncoding \o <<":", " ">> \o V_ContentTransferEncoding >>

C17_ExtraLines ==
  [k \in 1..Len(msg.extraHeaders) |->
     msg.extraHeaders[k].key \o <<":", " ">> \o msg.extraHeaders[k].val]

(* C17 as stated: the header block of a message (with a subject that is    *)
(* not empty once trimmed) is the eight fixed headers in order, each with  *)
(* the value the composer built, followed by the caller's extra headers in *)
(* the caller's order; no caller header replaces a fixed one.              *)
C17_FixedThenExtras ==
  \A i \in MessageWrites :
    SubjectBuilt # <<>> =>
      \E hex \in RandomHex :
        HeaderBlock(wrote[i].bytes) = implode(CRLF, C17_FixedLines(hex) \o C17_ExtraLines)

C18_AllPrintable(s) == \A i \in 1..Len(s) : Ord(s[i]) \in 32..126

C18_CallerNamesSubject ==
  \E k \in 1..Len(msg.extraHeaders) : msg.extraHeaders[k].key = H_Subject

(* base64 decoding, written from RFC 4648 and not from base64_encode. *)
C18_Index(c) == CHOOSE n \in 0..63 : Base64Alphabet[n + 1] = c
C18_Sextet(c) == IF c = "=" THEN 0 ELSE C18_Index(c)
C18_Byte(n) == CHOOSE c \in DOMAIN OrdTable : OrdTable[c] = n
C18_GroupValue(e, g) ==
  C18_Sextet(e[4 * g - 3]) * 262144 + C18_Sextet(e[4 * g - 2]) * 4096
    + C18_Sextet(e[4 * g - 1]) * 64 + C18_Sextet(e[4 * g])
C18_Padding(e) == Cardinality({i \in 1..Len(e) : e[i] = "="})
C18_Decode(e) ==
  [j \in 1..((Len(e) \div 4) * 3 - C18_Padding(e)) |->
     LET n == C18_GroupValue(e, ((j - 1) \div 3) + 1)
         k == (j - 1) % 3
     IN  C18_Byte(IF k = 0 THEN n \div 65536
                  ELSE IF k = 1 THEN (n \div 256) % 256
                  ELSE n % 256)]

C18_SubjectsOnWire(i) == HeaderValues(HeaderBlock(wrote[i].bytes), H_Subject)

(* C18 as stated: a subject of printable bytes is on the wire unchanged.   *)
(* (Messages whose caller names a Subject header of its own are C17's.)    *)
C18_AsStated ==
  \A i \in MessageWrites :
    (~C18_CallerNamesSubject /\ C18_AllPrintable(msg.subject)) =>
      C18_SubjectsOnWire(i) = {msg.subject}

(* C18: when the caller's extra headers name no Subject of their own, the  *)
(* Subject value on the wire is the input subject with the whitespace at   *)
(* its ends trimmed when every byte of it is in 0x20-0x7E (and there is no *)
(* Subject line when nothing is left), and is "=?UTF-8?B?" followed by the *)
(* base64 of the subject bytes and "?=" when any byte is outside that      *)
(* range; base64-decoding the encoded word gives back the original bytes.  *)
C18_SubjectOnWire ==
  \A i \in MessageWrites :
    ~C18_CallerNamesSubject =>
      IF C18_AllPrintable(msg.subject)
        THEN C18_SubjectsOnWire(i) =
               IF trim(msg.subject) = <<>> THEN {} ELSE {trim(msg.subject)}
        ELSE /\ Cardinality(C18_SubjectsOnWire(i)) = 1
             /\ \A v \in C18_SubjectsOnWire(i) :
                  /\ SubSeq(v, 1, 10) = EncodedWordPrefix
                  /\ SubSeq(v, Len(v) - 1, Len(v)) = EncodedWordSuffix
                  /\ SubSeq(v, 11, Len(v) - 2) = base64_encode(msg.subject)
                  /\ C18_Decode(SubSeq(v, 11, Len(v) - 2)) = msg.subject

(* A message was written whose subject is the two bytes of a non-ASCII     *)
(* letter after a space.                                                   *)
C18_Witness ==
  /\ MessageWrites # {}
  /\ msg.subject = <<" ", "xD9", "x85">>
  /\ ~C18_CallerNamesSubject

(* The body with each of its line endings (CRLF, else a bare CR or LF)     *)
(* written as CRLF.                                                        *)
RECURSIVE C19_Canon(_)
C19_Canon(b) ==
  IF b = <<>> THEN <<>>
  ELSE IF MatchAt(b, 1, CRLF) THEN CRLF \o C19_Canon(SubSeq(b, 3, Len(b)))
  ELSE IF b[1] \in {CR, LF} THEN CRLF \o C19_Canon(Tail(b))
  ELSE <<b[1]>> \o C19_Canon(Tail(b))

(* The line endings of an input body: each CRLF, each other CR or LF. *)
C19_Endings(b) ==
  {j \in 1..Len(b) : b[j] = LF \/ (b[j] = CR /\ ~(j < Len(b) /\ b[j + 1] = LF))}

C19_IsNotDot(c) == c # "."
C19_WithoutDots(s) == SelectSeq(s, C19_IsNotDot)

(* C19: in the transmitted body every CR is followed by LF and every LF is *)
(* preceded by CR; the body has as many CRLF as the input has line endings *)
(* (a CRLF, a bare CR and a bare LF each counting once), and apart from    *)
(* the dots of dot-stuffing it is the input with each line ending written  *)
(* as CRLF.                                                                *)
C19_LineEndingsAreCRLF ==
  \A i \in MessageWrites :
    LET sent == TransmittedBody(wrote[i].bytes)
    IN  /\ \A j \in 1..Len(sent) :
             /\ sent[j] = CR => (j < Len(sent) /\ sent[j + 1] = LF)
             /\ sent[j] = LF => (j > 1 /\ sent[j - 1] = CR)
        /\ Cardinality({j \in 1..Len(sent) : MatchAt(sent, j, CRLF)})
             = Cardinality(C19_Endings(msg.body))
        /\ C19_WithoutDots(sent) = C19_WithoutDots(C19_Canon(msg.body))

(* A message was written whose body holds a bare CR and then a CRLF. *)
C19_Witness ==
  /\ MessageWrites # {}
  /\ msg.body = <<CR, CR, LF>>

(* The text a read hands back once fgets has given `got`: the lines before *)
(* it and, unless nothing was read, the line itself.                       *)
C20_Text(got) == IF got = NoLine THEN acc ELSE Append(acc, got)

(* One fgets of a read, where a line that carries a code followed by one   *)
(* of `enders` is what ends a reply: such a line, or no line at all, ends  *)
(* the read, and its text is every line the read was given; any other      *)
(* line, one with a hyphen after the code included, is added to the text   *)
(* and the read goes on at the same step.  No second line is taken once    *)
(* the read has ended: the next fgets comes after the next fwrite.         *)
C20_Fgets(enders) ==
  pc \in ReadingPcs =>
    /\ lastLine' # Unread
    /\ IF lastLine' = NoLine \/ (lastLine'.code # NoCode /\ lastLine'.sep \in enders)
         THEN /\ pc' \notin ReadingPcs
              /\ acc' = <<>>
              /\ (pc' = "returned" /\ ~result'.ok /\ pc # "helo_reply") =>
                    result'.debug.resp = C20_Text(lastLine')
              /\ pc' = "helo" => ehloResp' = C20_Text(lastLine')
         ELSE /\ pc' = pc
              /\ acc' = Append(acc, lastLine')

C22_EventuallyReturns == <>(pc \in {"returned", "thrown"})

(* C23 as stated: the time a call spends blocked, over the connect and all *)
(* protocol steps together, stays within the one configured timeout.       *)
C23_OneBudget == blocked <= timeout

SmtpSends == {i \in 1..Len(req.sends) : req.sends[i].via = "smtp"}
MailSends == {i \in 1..Len(req.sends) : req.sends[i].via = "mail"}
VisitorSends == {i \in 1..Len(req.sends) : req.sends[i].to = "visitor"}
Answered == req.at = "done"

(* C24 as stated: with SMTP enabled, each of the three handlers sends its   *)
(* admin notification through leenelite_send_smtp (never through mail()),  *)
(* and once it was delivered an auto-reply to the visitor is tried before   *)
(* the request is answered.                                                 *)
C24_AllHandlersSendBySmtp ==
  (req.handler \in Handlers /\ req.smtpEnabled) =>
    /\ MailSends = {}
    /\ (Answered /\ req.sends # <<>> /\ req.sends[1].ok = "true") => VisitorSends # {}

(* C25: in contact.php and subscribe.php the auto-reply is tried only      *)
(* after the admin notification was sent with success, as the second mail   *)
(* of the request; an admin notification that came back as failed ends the  *)
(* request with 500 'send_failed' and no further mail; an auto-reply that   *)
(* came back as failed ends it with 200, ok true and user_mail_sent false;  *)
(* with SMTP enabled nothing goes through mail(), and a request whose call  *)
(* was left by the exception of C16 tries no further mail either.          *)
C25_AutoReplyOnlyAfterAdmin ==
  req.handler \in {"contact", "subscribe"} =>
    /\ \A i \in VisitorSends :
          /\ i = 2
          /\ req.sends[1].to = "admin"
          /\ req.sends[1].ok = "true"
    /\ Len(req.sends) <= 2
    /\ (req.sends # <<>> /\ req.sends[1].ok = "false") =>
          /\ Answered
          /\ req.status = 500
          /\ req.body = [ok |-> FALSE, error |-> "send_failed", user_mail_sent |-> "absent"]
          /\ Len(req.sends) = 1
    /\ (Len(req.sends) = 2 /\ req.sends[2].ok = "false") =>
          /\ Answered
          /\ req.status = 200
          /\ req.body = [ok |-> TRUE, error |-> "", user_mail_sent |-> "false"]
    /\ (Answered /\ Len(req.sends) = 2) =>
          req.body.user_mail_sent = req.sends[2].ok
    /\ req.smtpEnabled => MailSends = {}
    /\ req.at = "crashed" => req.sends[Len(req.sends)].ok = "pending"

(* A contact request over SMTP whose admin mail was sent and whose         *)
(* auto-reply failed at RCPT TO.                                           *)
C25_Witness ==
  /\ req.handler = "contact"
  /\ req.smtpEnabled
  /\ Answered
  /\ Len(req.sends) = 2
  /\ req.sends[1].ok = "true"
  /\ req.sends[2].ok = "false"
  /\ result.error_code = "smtp_rcpt_to_failed"
  /\ req.body.user_mail_sent = "false"

C26_Reply(step, code) == [step |-> step, code |-> code]

(* The replies that answer the hello: 250 to EHLO, or any other answer to  *)
(* EHLO and then 250 to HELO.                                              *)
C26_Hello ==
  {<<C26_Reply("ehlo", 250)>>}
    \cup {<<C26_Reply("ehlo", c), C26_Reply("helo", 250)>> : c \in (Codes \cup {0}) \ {250}}

C26_Tls ==
  IF TlsRequested THEN <<C26_Reply("starttls", 220), C26_Reply("ehlo_tls", 250)>> ELSE <<>>

C26_Envelope ==
  {<<C26_Reply("mail", 250), C26_Reply("rcpt", c), C26_Reply("data", 354),
     C26_Reply("message", 250)>> : c \in {250, 251}}

(* C26: a call that returned success has read, in this order and with      *)
(* nothing else in between: 220 as greeting; 250 to EHLO, or 250 to the    *)
(* HELO that followed a rejected EHLO; with encryption tls 220 to STARTTLS, *)
(* one handshake that succeeded, and 250 to the second EHLO; 250 to MAIL   *)
(* FROM; 250 or 251 to RCPT TO; 354 to DATA; 250 to the end of the message; *)
(* and last the reply to QUIT, whatever it was.                            *)
C26_SuccessOnlyIf ==
  (Returned /\ result.ok) =>
    /\ \E h \in C26_Hello, e \in C26_Envelope :
          SubSeq(replies, 1, Len(replies) - 1) =
            <<C26_Reply("greeting", 220)>> \o h \o C26_Tls \o e
    /\ replies # <<>> /\ LastReply.step = "quit"
    /\ TlsRequested => (handshakes = 1 /\ crypto)
    /\ ~TlsRequested => (handshakes = 0 /\ ~crypto)

(* A success over STARTTLS after the HELO fallback, with RCPT TO answered  *)
(* 251 and QUIT not answered.                                              *)
C26_Witness ==
  /\ Returned /\ result.ok
  /\ TlsRequested
  /\ Len(replies) = 10
  /\ replies[3] = C26_Reply("helo", 250)
  /\ replies[7] = C26_Reply("rcpt", 251)
  /\ replies[10] = C26_Reply("quit", 0)

(* The error code of each step that has one of its own. *)
C27_ErrorOf(step) ==
  CASE step = "greeting" -> "smtp_bad_greeting"
    [] step = "helo" -> "smtp_helo_failed"
    [] step = "starttls" -> "smtp_starttls_failed"
    [] step = "ehlo_tls" -> "smtp_ehlo_after_tls_failed"
    [] step = "mail" -> "smtp_mail_from_failed"
    [] step = "rcpt" -> "smtp_rcpt_to_failed"
    [] step = "data" -> "smtp_data_failed"
    [] step = "message" -> "smtp_message_rejected"
    [] OTHER -> "none"

(* C27 as stated: a reply read as status code 0, at whichever step, is a   *)
(* rejection that ends the call with a failure.                            *)
C27_AsStated ==
  \A i \in 1..Len(replies) :
    replies[i].code = 0 => (i = Len(replies) /\ Returned /\ ~result.ok)

(* C27: a read that gives nothing (timeout, connection closed) or a text   *)
(* that does not start with three digits is status code 0.  At every step  *)
(* but the first EHLO and QUIT it ends the call with that step's own error *)
(* code, and its text is the diagnostic; at the first EHLO it leads to the *)
(* HELO fallback; at QUIT it is ignored and the call returns success.  No  *)
(* error code of its own exists for it.                                    *)
C27_EmptyReadRejects ==
  \A i \in 1..Len(replies) :
    replies[i].code = 0 =>
      /\ replies[i].step \notin {"ehlo", "quit"} =>
            /\ i = Len(replies)
            /\ Returned
            /\ ~result.ok
            /\ result.error_code = C27_ErrorOf(replies[i].step)
            /\ result.error_code \in C16_ErrorCodes
            /\ (lastLine = NoLine /\ replies[i].step # "helo") =>
                  \A k \in 1..Len(result.debug.resp) : result.debug.resp[k].code = NoCode
                                                         \/ result.debug.resp[k].sep = "-"
      /\ replies[i].step = "ehlo" =>
            /\ i = 2
            /\ pc # "helo" => (Len(wrote) >= 2 /\ wrote[2].cmd = "HELO")
            /\ Returned => (Len(replies) >= 3 /\ replies[3].step = "helo")
      /\ replies[i].step = "quit" =>
            /\ i = Len(replies)
            /\ Returned
            /\ result.ok

(* The read of the greeting ran into the timeout without a single line. *)
C27_Witness ==
  /\ Returned
  /\ result.error_code = "smtp_bad_greeting"
  /\ result.debug.resp = <<>>
  /\ lastLine = NoLine
  /\ blocked = timeout
  /\ replies = <<[step |-> "greeting", code |-> 0]>>

(* The position of the command written right after the hello was         *)
(* accepted: after EHLO when HELO did not follow it, else after HELO.      *)
C28_AfterHello ==
  {i + 1 : i \in {j \in 1..Len(wrote) :
                   /\ j < Len(wrote)
                   /\ \/ wrote[j].cmd = "HELO"
                      \/ (j = 1 /\ wrote[j].cmd = "EHLO" /\ wrote[j + 1].cmd # "HELO")}}

C28_TlsErrors ==
  {"smtp_starttls_failed", "smtp_tls_negotiation_failed", "smtp_ehlo_after_tls_failed"}

(* C28: the command that follows the accepted hello is STARTTLS exactly    *)
(* when the encryption setting, lowercased, is 'tls' (an absent setting    *)
(* counts as 'tls'); with any other value the whole session is plaintext:  *)
(* no handshake, nothing written over TLS, and no failure that comes from  *)
(* the TLS steps or from the value itself: a failed call was refused the   *)
(* connection or read a rejected reply.                                    *)
C28_StartTlsIffTls ==
  /\ \A i \in C28_AfterHello : (wrote[i].cmd = "STARTTLS") <=> TlsRequested
  /\ \A i \in C28_AfterHello : ~TlsRequested => wrote[i].cmd = "MAIL FROM"
  /\ ~TlsRequested =>
       /\ handshakes = 0
       /\ ~crypto
       /\ \A i \in 1..Len(wrote) : ~wrote[i].secure /\ wrote[i].cmd # "STARTTLS"
       /\ result.error_code \notin C28_TlsErrors
       /\ (Returned /\ ~result.ok) =>
             \/ opens = 0
             \/ LastReply.code \notin C13_Accepted(LastReply.step)

(* A session with the setting '' (neither tls nor none) ended in success   *)
(* without STARTTLS.                                                       *)
C28_Witness ==
  /\ cfg.encryption = Given(<<>>)
  /\ Returned
  /\ result.ok
  /\ Count("STARTTLS") = 0
  /\ \A i \in 1..Len(wrote) : ~wrote[i].secure

(* The code of the first line of a reply text, 0 when there is none. *)
C29_FirstCode(text) ==
  IF text # <<>> /\ text[1].code # NoCode THEN text[1].code ELSE 0

(* One step that ends a reply read: the code logged for the step is the    *)
(* code of the first line of the text read, and the step is accepted or    *)
(* rejected by that code alone, whatever codes the later lines carry: a    *)
(* rejected first EHLO goes on to HELO, QUIT's reply ends the call in      *)
(* success either way, any other rejected step ends the call in failure.   *)
C29_Compared ==
  (pc \in ReadingPcs /\ pc' \notin ReadingPcs) =>
    LET text  == C20_Text(lastLine')
        first == C29_FirstCode(text)
        step  == replies'[Len(replies')].step
    IN  /\ Len(replies') = Len(replies) + 1
        /\ replies'[Len(replies')].code = first
        /\ step = "ehlo" => ((pc' = "helo") <=> first \notin C13_Accepted(step))
        /\ step = "quit" => (pc' = "returned" /\ result'.ok)
        /\ step \notin {"ehlo", "quit"} =>
              ((pc' = "returned" /\ ~result'.ok) <=> first \notin C13_Accepted(step))

(* C29: for a multi-line reply the status code compared with the step's    *)
(* accepted set is the code on the first line of the reply; the codes on   *)
(* the continuation lines and on the final line are not compared.          *)
C29_FirstLineDecides == [][C29_Compared]_vars

(* The reply to MAIL FROM was '250-' then '550 ': it was logged as 250 and *)
(* the session went on to RCPT TO.                                         *)
C29_Witness ==
  /\ pc = "rcpt"
  /\ lastLine = [code |-> 550, sep |-> " "]
  /\ LastReply = [step |-> "mail", code |-> 250]

(* What follows the header block in a payload whose body is "a": the blank *)
(* line, the body, the closing dot line.                                   *)
C30_AfterHeaders == CRLF \o CRLF \o <<"a">> \o CRLF \o <<".">> \o CRLF

(* The header block of a written payload: all of it up to the separator.   *)
C30_Block(bytes) == SubSeq(bytes, 1, Len(bytes) - Len(C30_AfterHeaders))

(* The lines of a header block. *)
C30_Lines(block) == {LineAt(block, p) : p \in LineStarts(block)}

C30_Named(block, name) ==
  {l \in C30_Lines(block) : IsPrefix(name \o <<":">>, l)}

C30_CallerNames(name) ==
  \E k \in 1..Len(msg.extraHeaders) : msg.extraHeaders[k].key = name

(* Entries with an empty name or an empty trimmed value build no line:     *)
(* none for an empty subject or recipient, none for such a caller entry.   *)
C30_EmptyLeftOut(block) ==
  /\ (trim(msg.subject) = <<>> /\ ~C30_CallerNames(H_Subject)) =>
        C30_Named(block, H_Subject) = {}
  /\ (trim(msg.toEmail) = <<>> /\ ~C30_CallerNames(H_To)) =>
        C30_Named(block, H_To) = {}
  /\ \A k \in 1..Len(msg.extraHeaders) :
        LET e == msg.extraHeaders[k]
        IN  /\ (~is_int(e.key) /\ trim(e.val) = <<>>) => C30_Named(block, trim(e.key)) = {}
            /\ (~is_int(e.key) /\ trim(e.key) = <<>>) => C30_Named(block, <<>>) = {}
  /\ \A l \in C30_Lines(block) : l # <<":", " ">> /\ l # <<" ">>

C30_NoEmptyLine(block) == <<>> \notin C30_Lines(block)

(* C30 as stated: a header whose name or whose trimmed value is empty is   *)
(* left out of the header block, fixed headers included (an empty subject  *)
(* or recipient gives no Subject or To line), and the header block holds   *)
(* no empty line before the blank line that separates it from the body.    *)
C30_NoEmptyHeaderLine ==
  \A i \in MessageWrites :
    /\ SubSeq(wrote[i].bytes, Len(wrote[i].bytes) - Len(C30_AfterHeaders) + 1,
              Len(wrote[i].bytes)) = C30_AfterHeaders
    /\ C30_EmptyLeftOut(C30_Block(wrote[i].bytes))
    /\ C30_NoEmptyLine(C30_Block(wrote[i].bytes))

(* The same for the messages in which no field holds a line break of its   *)
(* own.                                                                    *)
C30_WithoutLineBreaks ==
  msg.fromName # NameWithBlankLine => C30_NoEmptyHeaderLine

(* The first part alone, for every message. *)
C30_EmptyAlwaysLeftOut ==
  \A i \in MessageWrites : C30_EmptyLeftOut(C30_Block(wrote[i].bytes))

====
